---- MODULE Spec2Model ----
(***************************************************************************)
(* Model of src/converter.js: the conversion of one ChatGPT conversation   *)
(* (a node mapping with parent/children links) into a Qwen conversation    *)
(* (a linear message list with rebuilt parent/children links).             *)
(*                                                                         *)
(* Node ids are the integers 1..NumNodes (the keys of `mapping`, in        *)
(* Object.keys order); Ghost is an id that is no key of the mapping;       *)
(* null stands for JavaScript's null/undefined/"" (every falsy id).        *)
(***************************************************************************)
EXTENDS Integers, Sequences, FiniteSets, TLC

\* ---------------------------------------------------------------- bounds
NumNodes == 3

\* the falsy id: `parent || null`, a missing current_node, a missing id
null == 0

AllKeys == 1..NumNodes
\* an id that is referenced but is no key of the mapping
Ghost == NumNodes + 1
\* a message id that differs from the key of its node
AltId(k) == NumNodes + 1 + k
\* iterations after which the model stops unrolling a walk over parent links
MaxWalk == NumNodes + 2

VARIABLES mapping, current_node, pc, path, currentId, steps, orderedNodeIds,
          messages, idx, history

vars == <<mapping, current_node, pc, path, currentId, steps, orderedNodeIds,
          messages, idx, history>>

\* ------------------------------------------------------------- helpers
Range(s) == {s[i] : i \in 1..Len(s)}

Reverse(s) == [i \in 1..Len(s) |-> s[Len(s) + 1 - i]]

has(nodeId) == nodeId \in DOMAIN mapping

\* Array.from(new Set(result)): first occurrences, in order
RECURSIVE Dedupe(_)
Dedupe(s) ==
  IF s = <<>> THEN <<>>
  ELSE LET front == Dedupe(SubSeq(s, 1, Len(s) - 1))
           last == s[Len(s)]
       IN IF last \in Range(front) THEN front ELSE Append(front, last)

\* ------------------------------------------------- pure functions of the code
parentOf(nodeId) ==
  IF has(nodeId) THEN mapping[nodeId].parent ELSE null

findRootNodes ==
  SelectSeq([i \in 1..Cardinality(DOMAIN mapping) |-> i],
            LAMBDA nodeId : mapping[nodeId].parent = null
                            \/ ~has(mapping[nodeId].parent))

\* traverseFromNode returns the sequence and the visited set it has grown
RECURSIVE traverseFromNode(_, _)
RECURSIVE traverseChildren(_, _, _)
\* mutant: the children are tried from the last-listed to the first-listed
traverseChildren_LastFirst(children, i, visited) ==
  IF i > Len(children) THEN [sequence |-> <<>>, visited |-> visited]
  ELSE LET childPath == traverseFromNode(children[Len(children) + 1 - i],
                                         visited)
       IN IF Len(childPath.sequence) > 0
          THEN childPath
          ELSE traverseChildren(children, i + 1, childPath.visited)

\* mutant: the loop over the children has lost its break
traverseChildren_AllBranches(children, i, visited) ==
  IF i > Len(children) THEN [sequence |-> <<>>, visited |-> visited]
  ELSE LET childPath == traverseFromNode(children[i], visited)
           rest == traverseChildren(children, i + 1, childPath.visited)
       IN [sequence |-> childPath.sequence \o rest.sequence,
           visited |-> rest.visited]

\* the loop over node.children, from the i-th child on
traverseChildren(children, i, visited) ==
  IF i > Len(children) THEN [sequence |-> <<>>, visited |-> visited]
  ELSE LET childPath == traverseFromNode(children[i], visited)
       IN IF Len(childPath.sequence) > 0
          THEN childPath
          ELSE traverseChildren(children, i + 1, childPath.visited)

\* mutant: an id that is no key of the mapping is returned as a path of one
traverseFromNode_KeepsMissing(nodeId, visited) ==
  IF nodeId = null \/ nodeId \in visited
  THEN [sequence |-> <<>>, visited |-> visited]
  ELSE IF ~has(nodeId)
  THEN [sequence |-> <<nodeId>>, visited |-> visited \cup {nodeId}]
  ELSE LET rest == traverseChildren(mapping[nodeId].children, 1,
                                    visited \cup {nodeId})
       IN [sequence |-> <<nodeId>> \o rest.sequence, visited |-> rest.visited]

traverseFromNode(nodeId, visited) ==
  IF nodeId = null \/ nodeId \in visited
  THEN [sequence |-> <<>>, visited |-> visited]
  ELSE IF ~has(nodeId)
  THEN [sequence |-> <<>>, visited |-> visited \cup {nodeId}]
  ELSE LET rest == traverseChildren(mapping[nodeId].children, 1,
                                    visited \cup {nodeId})
       IN [sequence |-> <<nodeId>> \o rest.sequence, visited |-> rest.visited]

RECURSIVE expandFrom(_, _, _)
expandFrom(p, i, result) ==
  IF i > Len(p) THEN result
  ELSE LET nodeId == p[i]
           pushed == Append(result, nodeId)
       IN IF has(nodeId) /\ Len(mapping[nodeId].children) > 0
          THEN pushed \o traverseFromNode(mapping[nodeId].children[1],
                                          Range(pushed)).sequence
          ELSE expandFrom(p, i + 1, pushed)

expandPath(p) == Dedupe(expandFrom(p, 1, <<>>))

\* mutant: every unrecognized role becomes "assistant"
normalizeRole_DefaultsToAssistant(role) ==
  CASE role = "user" -> "user"
    [] role = "assistant" -> "assistant"
    [] OTHER -> "assistant"

normalizeRole(role) ==
  CASE role = "user" -> "user"
    [] role = "assistant" -> "assistant"
    [] OTHER -> IF role = "" THEN "assistant" ELSE role

\* the parts joined and trimmed; a message of the model has at most one part
extractContent(message) ==
  IF message.parts = <<>> THEN "" ELSE message.parts[1]

buildQwenMessage(nodeId, node, role) ==
  [node |-> nodeId,
   id |-> IF node.message[1].id # null THEN node.message[1].id ELSE node.id,
   role |-> IF role = "assistant" THEN "assistant" ELSE "user",
   parentId |-> null,
   childrenIds |-> <<>>]

qualifies(nodeId) ==
  /\ has(nodeId)
  /\ mapping[nodeId].message # <<>>
  /\ normalizeRole(mapping[nodeId].message[1].role) \in {"user", "assistant"}
  /\ extractContent(mapping[nodeId].message[1]) # ""

RECURSIVE filterMessages(_)
filterMessages(ids) ==
  IF ids = <<>> THEN <<>>
  ELSE LET front == filterMessages(SubSeq(ids, 1, Len(ids) - 1))
           nodeId == ids[Len(ids)]
       IN IF qualifies(nodeId)
          THEN Append(front,
                 buildQwenMessage(nodeId, mapping[nodeId],
                   normalizeRole(mapping[nodeId].message[1].role)))
          ELSE front

includedIds == {messages[i].node : i \in 1..Len(messages)}

\* ----------------------------------------------------------------- inputs
Kids(p, n, k) == SelectSeq([i \in 1..k |-> i], LAMBDA c : p[c] = n)

Msg(id, role, parts) == <<[id |-> id, role |-> role, parts |-> parts]>>

\* the message of node k, by kind
MessageOf(kind, k) ==
  CASE kind = "user" -> Msg(k, "user", <<"hi">>)
    [] kind = "assistant" -> Msg(k, "assistant", <<"hi">>)
    [] kind = "system" -> Msg(k, "system", <<"hi">>)
    [] kind = "empty" -> Msg(k, "assistant", <<>>)
    [] kind = "norole" -> Msg(k, "", <<"hi">>)
    [] kind = "altid" -> Msg(AltId(k), "assistant", <<"hi">>)
    [] kind = "noid" -> Msg(null, "assistant", <<"hi">>)
    [] OTHER -> <<>>

NodeIdOf(kind, k) == IF kind = "noid" THEN null ELSE k

CoarseKinds == {"assistant", "none"}
RichKinds == {"user", "assistant", "system", "empty", "norole", "altid",
              "noid"}

Edits(k) ==
  {[op |-> "none", n |-> 0, x |-> 0], [op |-> "reverse", n |-> 0, x |-> 0]}
  \cup {[op |-> "prepend", n |-> n, x |-> x] : n \in 1..k, x \in 1..(k + 1)}
  \cup {[op |-> "clear", n |-> n, x |-> 0] : n \in 1..k}

ChildrenOf(p, n, k, ed) ==
  CASE ed.op = "reverse" -> Reverse(Kids(p, n, k))
    [] ed.op = "prepend" /\ ed.n = n ->
         <<(IF ed.x = k + 1 THEN Ghost ELSE ed.x)>> \o Kids(p, n, k)
    [] ed.op = "clear" /\ ed.n = n -> <<>>
    [] OTHER -> Kids(p, n, k)

MakeMapping(k, p, ed, kinds) ==
  [n \in 1..k |->
     [id |-> NodeIdOf(kinds[n], n),
      parent |-> p[n],
      children |-> ChildrenOf(p, n, k, ed),
      message |-> MessageOf(kinds[n], n)]]

Started ==
  /\ pc = "start"
  /\ path = <<>>
  /\ currentId = null
  /\ steps = 0
  /\ orderedNodeIds = <<>>
  /\ messages = <<>>
  /\ idx = 1
  /\ history = [currentId |-> null, currentResponseIds |-> <<>>]

\* malformed shapes: any parent links among the nodes (cycles included),
\* children that disagree with the parent links in one place, at most one
\* node without a message
InitMalformed ==
  /\ \E k \in 0..NumNodes :
       \E p \in [1..k -> {null} \cup (1..k)] :
         \E ed \in Edits(k) :
           \E dropped \in 0..k :
             mapping = MakeMapping(k, p, ed,
                         [n \in 1..k |-> IF n = dropped THEN "none"
                                         ELSE "assistant"])
  /\ current_node \in {null} \cup AllKeys
  /\ Started

\* forests with a parent that is no key of the mapping, and a current_node
\* that may be no key of the mapping
InitDangling ==
  /\ \E k \in 1..NumNodes :
       \E p \in [1..k -> {null, Ghost} \cup (1..k)] :
         /\ \A n \in 1..k : p[n] = Ghost \/ p[n] < n
         /\ \E n \in 1..k : p[n] = Ghost
         /\ \E kinds \in [1..k -> CoarseKinds] :
              mapping = MakeMapping(k, p, [op |-> "none", n |-> 0, x |-> 0],
                                    kinds)
  /\ current_node \in {null, Ghost} \cup AllKeys
  /\ Started

\* well-formed forests with every kind of message
InitForest ==
  /\ \E k \in 1..NumNodes :
       \E p \in [1..k -> {null} \cup (1..k)] :
         /\ \A n \in 1..k : p[n] < n
         /\ \E kinds \in [1..k -> RichKinds] :
              mapping = MakeMapping(k, p, [op |-> "none", n |-> 0, x |-> 0],
                                    kinds)
  /\ current_node \in {null} \cup AllKeys
  /\ Started

Init == InitMalformed \/ InitDangling \/ InitForest

\* ---------------------------------------------------------------- actions
\* reconstructMessagePath, up to the call of getPathToRoot
Reconstruct ==
  /\ pc = "start"
  /\ IF DOMAIN mapping = {} \/ findRootNodes = <<>>
     THEN /\ orderedNodeIds' = <<>>
          /\ pc' = "filter"
          /\ UNCHANGED currentId
     ELSE IF current_node # null /\ has(current_node)
     THEN /\ currentId' = current_node
          /\ pc' = "getPathToRoot"
          /\ UNCHANGED orderedNodeIds
     ELSE /\ orderedNodeIds' = traverseFromNode(findRootNodes[1], {}).sequence
          /\ pc' = "filter"
          /\ UNCHANGED currentId
  /\ UNCHANGED <<mapping, current_node, path, steps, messages, idx, history>>

\* one iteration of the loop of getPathToRoot, or its exit into expandPath
getPathToRoot ==
  /\ pc = "getPathToRoot"
  /\ Len(path) < MaxWalk
  /\ IF currentId # null /\ has(currentId)
     THEN /\ path' = <<currentId>> \o path
          /\ currentId' = mapping[currentId].parent
          /\ UNCHANGED <<pc, orderedNodeIds>>
     ELSE /\ orderedNodeIds' = expandPath(path)
          /\ pc' = "filter"
          /\ UNCHANGED <<path, currentId>>
  /\ UNCHANGED <<mapping, current_node, steps, messages, idx, history>>

\* the filtering loop of transformConversation
Filter ==
  /\ pc = "filter"
  /\ messages' = filterMessages(orderedNodeIds)
  /\ idx' = 1
  /\ steps' = 0
  /\ currentId' = IF messages' = <<>> THEN null
                  ELSE mapping[messages'[1].node].parent
  /\ pc' = "findIncludedAncestor"
  /\ UNCHANGED <<mapping, current_node, path, orderedNodeIds, history>>

\* the first re-linking loop: one iteration of the loop of
\* findIncludedAncestor for the idx-th included node, or its return
Resolved(parentId) ==
  /\ messages' = [messages EXCEPT ![idx].parentId = parentId,
                                  ![idx].childrenIds = <<>>]
  /\ idx' = idx + 1
  /\ steps' = 0
  /\ currentId' = IF idx + 1 > Len(messages) THEN null
                  ELSE mapping[messages[idx + 1].node].parent
  /\ UNCHANGED pc

\* mutant: the walk returns the first parent it meets, surviving or not
findIncludedAncestor_KeepsParent ==
  /\ pc = "findIncludedAncestor"
  /\ idx <= Len(messages)
  /\ steps < MaxWalk
  /\ IF currentId = null THEN Resolved(null) ELSE Resolved(currentId)
  /\ UNCHANGED <<mapping, current_node, path, orderedNodeIds, history>>

findIncludedAncestor ==
  /\ pc = "findIncludedAncestor"
  /\ idx <= Len(messages)
  /\ steps < MaxWalk
  /\ IF currentId = null THEN Resolved(null)
     ELSE IF currentId \in includedIds THEN Resolved(currentId)
     ELSE /\ currentId' = parentOf(currentId)
          /\ steps' = steps + 1
          /\ UNCHANGED <<messages, idx, pc>>
  /\ UNCHANGED <<mapping, current_node, path, orderedNodeIds, history>>

\* the second re-linking loop and the current-message pointers
RECURSIVE wire(_, _)
\* mutant: a child is put in front of its parent's childrenIds
wire_Prepends(msgs, i) ==
  IF i > Len(msgs) THEN msgs
  ELSE LET parentId == msgs[i].parentId
           at == {j \in 1..Len(msgs) : msgs[j].node = parentId}
       IN IF parentId # null /\ at # {}
          THEN LET j == CHOOSE j \in at : TRUE
               IN wire([msgs EXCEPT ![j].childrenIds =
                                       <<msgs[i].node>> \o @], i + 1)
          ELSE wire(msgs, i + 1)

wire(msgs, i) ==
  IF i > Len(msgs) THEN msgs
  ELSE LET parentId == msgs[i].parentId
           at == {j \in 1..Len(msgs) : msgs[j].node = parentId}
       IN IF parentId # null /\ at # {}
          THEN LET j == CHOOSE j \in at : TRUE
               IN wire([msgs EXCEPT ![j].childrenIds =
                                       Append(@, msgs[i].node)], i + 1)
          ELSE wire(msgs, i + 1)

\* mutant: the first assistant message, the list not being reversed
lastAssistant_First(msgs) ==
  LET at == {i \in 1..Len(msgs) : msgs[i].role = "assistant"}
  IN IF at = {} THEN <<>>
     ELSE <<msgs[CHOOSE i \in at : \A j \in at : i <= j]>>

lastAssistant(msgs) ==
  LET at == {i \in 1..Len(msgs) : msgs[i].role = "assistant"}
  IN IF at = {} THEN <<>>
     ELSE <<msgs[CHOOSE i \in at : \A j \in at : j <= i]>>

currentIdOf(msgs) ==
  LET la == lastAssistant(msgs)
      chosen == IF la # <<>> THEN la
                ELSE IF msgs # <<>> THEN <<msgs[Len(msgs)]>> ELSE <<>>
  IN IF chosen = <<>> THEN null ELSE chosen[1].id

currentResponseIdsOf(msgs) ==
  IF currentIdOf(msgs) # null /\ lastAssistant(msgs) # <<>>
  THEN <<currentIdOf(msgs)>> ELSE <<>>

Assemble ==
  /\ pc = "findIncludedAncestor"
  /\ idx > Len(messages)
  /\ messages' = wire(messages, 1)
  /\ history' = [currentId |-> currentIdOf(messages'),
                 currentResponseIds |-> currentResponseIdsOf(messages')]
  /\ pc' = "done"
  /\ UNCHANGED <<mapping, current_node, path, currentId, steps,
                 orderedNodeIds, idx>>

Next == Reconstruct \/ getPathToRoot \/ Filter \/ findIncludedAncestor \/ Assemble

Spec == Init /\ [][Next]_vars

\* ------------------------------------------------- vocabulary of the claims
\* the d-th ancestor of node n along the original parent links
RECURSIVE ParentAt(_, _)
ParentAt(n, d) ==
  IF d = 0 THEN n
  ELSE LET below == ParentAt(n, d - 1)
       IN IF below \in DOMAIN mapping THEN mapping[below].parent ELSE null

CycleFree ==
  \A n \in DOMAIN mapping : \A d \in 1..NumNodes : ParentAt(n, d) # n

\* n lists c as a child exactly when c's parent is n
Consistent ==
  \A n \in DOMAIN mapping : \A c \in 0..Ghost :
    (c \in Range(mapping[n].children))
      <=> (c \in DOMAIN mapping /\ mapping[c].parent = n)

PathDone == pc \in {"filter", "findIncludedAncestor", "done"}

NoDuplicates(s) == \A i, j \in 1..Len(s) : s[i] = s[j] => i = j

IsPrefix(s, t) == Len(s) <= Len(t) /\ \A i \in 1..Len(s) : s[i] = t[i]

\* the ancestors of n in root-first order, n last (cycle-free mappings only)
RECURSIVE AncestorPath(_)
AncestorPath(n) ==
  IF n = null \/ n \notin DOMAIN mapping THEN <<>>
  ELSE Append(AncestorPath(mapping[n].parent), n)

Pos(nodeId) == CHOOSE i \in 1..Len(messages) : messages[i].node = nodeId

Declared == current_node # null /\ current_node \in DOMAIN mapping

\* --------------------------------------------------------------------- C1
\* C1: transformConversation terminates for every mapping: neither the walk
\* of getPathToRoot nor the walk of findIncludedAncestor runs forever. Each
\* iteration moves to another node, so a walk that ends takes at most as many
\* iterations as the mapping has nodes; a longer one has re-entered a node
\* and repeats from there without end.
C1_WalksEnd ==
  /\ pc = "getPathToRoot" => Len(path) <= Cardinality(DOMAIN mapping)
  /\ pc = "findIncludedAncestor" => steps <= Cardinality(DOMAIN mapping)

\* --------------------------------------------------------------------- C2
\* C2: with a declared current_node in a cycle-free mapping, the returned
\* sequence begins with the whole ancestor path root, ..., current_node.
\* Stated for the mappings whose parent and children links agree, where it
\* already fails.
C2_AncestorPathFirst ==
  (PathDone /\ CycleFree /\ Consistent /\ Declared)
    => IsPrefix(AncestorPath(current_node), orderedNodeIds)

\* --------------------------------------------------------------------- C3
\* C3: in the output, every parentId is null or the `id` of another message
\* of the list, and every entry of childrenIds is the `id` of a message of
\* the list. Stated for the cycle-free mappings whose parent and children
\* links agree, where it already fails.
C3_LinksNameMessageIds ==
  (pc = "done" /\ CycleFree /\ Consistent) =>
    \A i \in 1..Len(messages) :
      /\ \/ messages[i].parentId = null
         \/ \E j \in 1..Len(messages) :
              j # i /\ messages[j].id = messages[i].parentId
      /\ \A c \in Range(messages[i].childrenIds) :
           \E j \in 1..Len(messages) : messages[j].id = c

\* --------------------------------------------------------------------- C4
\* C4: in a cycle-free mapping the resolved parent of a surviving node is the
\* nearest surviving node on the original parent chain above it, and null if
\* that chain holds no surviving node.
NearestIncluded(n) ==
  LET ds == {d \in 1..NumNodes : ParentAt(n, d) \in includedIds}
  IN IF ds = {} THEN null
     ELSE ParentAt(n, CHOOSE d \in ds : \A e \in ds : d <= e)

C4_NearestSurvivingAncestor ==
  (CycleFree /\ pc \in {"findIncludedAncestor", "done"})
    => \A i \in 1..Len(messages) :
         i < idx => messages[i].parentId = NearestIncluded(messages[i].node)

\* a filtered node of the mapping was skipped on the way to the resolved
\* parent of a message
C4_Witness ==
  /\ pc = "done"
  /\ CycleFree
  /\ \E i \in 1..Len(messages) :
       /\ messages[i].parentId # null
       /\ messages[i].parentId # mapping[messages[i].node].parent
       /\ mapping[messages[i].node].parent \in DOMAIN mapping

\* --------------------------------------------------------------------- C5
\* C5: after re-linking, c is listed in the childrenIds of p exactly when the
\* resolved parent of c is p, it is listed once, and every childrenIds list
\* is in the order of the filtered message sequence.
Occurrences(s, x) == Cardinality({k \in 1..Len(s) : s[k] = x})

C5_ParentsAndChildrenAgree ==
  pc = "done" =>
    \A p \in 1..Len(messages) :
      /\ Range(messages[p].childrenIds) \subseteq includedIds
      /\ \A c \in 1..Len(messages) :
           Occurrences(messages[p].childrenIds, messages[c].node)
             = IF messages[c].parentId = messages[p].node THEN 1 ELSE 0
      /\ \A a, b \in 1..Len(messages[p].childrenIds) :
           a < b => Pos(messages[p].childrenIds[a])
                      < Pos(messages[p].childrenIds[b])

\* a message with two children, next to a message without a parent
C5_Witness ==
  /\ pc = "done"
  /\ \E p \in 1..Len(messages) : Len(messages[p].childrenIds) >= 2
  /\ \E c \in 1..Len(messages) : messages[c].parentId = null

\* --------------------------------------------------------------------- C6
AssistantPositions == {i \in 1..Len(messages) : messages[i].role = "assistant"}

\* the position of the message chosen as current, 0 for an empty list
ChosenPosition ==
  IF AssistantPositions # {}
  THEN CHOOSE i \in AssistantPositions : \A j \in AssistantPositions : j <= i
  ELSE Len(messages)

\* C6 as stated: currentId is the id of the last assistant message, else of
\* the last message, else null; currentResponseIds is [currentId] exactly
\* when the chosen message is an assistant message.
C6_CurrentPointers ==
  pc = "done" =>
    /\ history.currentId =
         IF ChosenPosition = 0 THEN null ELSE messages[ChosenPosition].id
    /\ history.currentResponseIds =
         IF ChosenPosition \in AssistantPositions
         THEN <<history.currentId>> ELSE <<>>

\* C6 as amended: the same, but a chosen message without an id gives a null
\* currentId and an empty currentResponseIds, also when it is an assistant
\* message.
C6_CurrentPointersWithId ==
  pc = "done" =>
    /\ history.currentId =
         IF ChosenPosition = 0 THEN null ELSE messages[ChosenPosition].id
    /\ history.currentResponseIds =
         IF ChosenPosition \in AssistantPositions
            /\ messages[ChosenPosition].id # null
         THEN <<messages[ChosenPosition].id>> ELSE <<>>

\* an assistant message that is not the last message is chosen as current
C6_Witness ==
  /\ pc = "done"
  /\ ChosenPosition \in AssistantPositions
  /\ ChosenPosition < Len(messages)
  /\ \E i \in AssistantPositions : i < ChosenPosition
  /\ history.currentResponseIds = <<messages[ChosenPosition].id>>

\* --------------------------------------------------------------------- C7
\* C7 as stated: no second or later child of a node is ever that node's
\* successor in the returned sequence.
C7_OnlyFirstChildFollowed ==
  PathDone =>
    \A i \in 1..(Len(orderedNodeIds) - 1) :
      LET ch == mapping[orderedNodeIds[i]].children
      IN \A j \in 2..Len(ch) :
           ch[j] = orderedNodeIds[i + 1] => ch[1] = orderedNodeIds[i + 1]

\* C7 as amended: a second or later child is the node's successor only when
\* every child listed before it is missing from the mapping or already on
\* the path.
C7_FirstViableChildFollowed ==
  PathDone =>
    \A i \in 1..(Len(orderedNodeIds) - 1) :
      LET ch == mapping[orderedNodeIds[i]].children
      IN /\ orderedNodeIds[i + 1] \in Range(ch)
            \/ (ch = <<>> /\ mapping[orderedNodeIds[i + 1]].parent
                               = orderedNodeIds[i])
         /\ \A j \in 2..Len(ch) :
              (ch[j] = orderedNodeIds[i + 1]
                 /\ \A k \in 1..(j - 1) : ch[k] # orderedNodeIds[i + 1])
                => \A k \in 1..(j - 1) :
                     \/ ch[k] \notin DOMAIN mapping
                     \/ \E h \in 1..i : orderedNodeIds[h] = ch[k]

\* a second child was followed because the first-listed child, a node of the
\* mapping, was already on the path
C7_Witness ==
  /\ pc = "done"
  /\ \E i \in 1..(Len(orderedNodeIds) - 1) :
       LET ch == mapping[orderedNodeIds[i]].children
       IN /\ Len(ch) >= 2
          /\ ch[2] = orderedNodeIds[i + 1]
          /\ ch[1] \in DOMAIN mapping
          /\ \E h \in 1..i : orderedNodeIds[h] = ch[1]

\* --------------------------------------------------------------------- C8
\* C8: for a cycle-free mapping, reconstructMessagePath terminates (the walk
\* to the root takes at most one iteration per node) and the sequence it
\* returns has no id twice and holds keys of the mapping only.
C8_PathEndsWithoutDuplicates ==
  CycleFree =>
    /\ pc = "getPathToRoot" => Len(path) <= Cardinality(DOMAIN mapping)
    /\ PathDone => /\ NoDuplicates(orderedNodeIds)
                   /\ Range(orderedNodeIds) \subseteq DOMAIN mapping

\* a path of two nodes or more was returned for a declared current_node that
\* is not a root, in a mapping that lists a missing child
C8_Witness ==
  /\ pc = "filter"
  /\ CycleFree
  /\ Declared
  /\ Len(path) >= 2
  /\ Len(orderedNodeIds) >= 2
  /\ \E n \in Range(orderedNodeIds) : Ghost \in Range(mapping[n].children)

\* --------------------------------------------------------------------- C9
HasContent(nodeId) ==
  /\ mapping[nodeId].message # <<>>
  /\ mapping[nodeId].message[1].parts # <<>>

RoleOf(nodeId) == mapping[nodeId].message[1].role

Filtered == pc \in {"findIncludedAncestor", "done"}

\* C9 as stated: a path node with an unrecognized non-empty role and content
\* is in the output as an assistant message.
C9_UnrecognizedRoleKept ==
  Filtered =>
    \A nodeId \in Range(orderedNodeIds) :
      (HasContent(nodeId) /\ RoleOf(nodeId) \notin {"", "user", "assistant"})
        => \E i \in 1..Len(messages) :
             messages[i].node = nodeId /\ messages[i].role = "assistant"

\* C9 as amended: only a missing role is treated as assistant; a path node
\* with another non-empty role than "user" and "assistant" is dropped.
C9_UnrecognizedRoleDropped ==
  Filtered =>
    \A nodeId \in Range(orderedNodeIds) :
      HasContent(nodeId) =>
        /\ RoleOf(nodeId) \notin {"", "user", "assistant"}
             => nodeId \notin includedIds
        /\ RoleOf(nodeId) = ""
             => \E i \in 1..Len(messages) :
                  messages[i].node = nodeId /\ messages[i].role = "assistant"

\* the path holds a node of role "system" and a node without a role
C9_Witness ==
  /\ pc = "done"
  /\ \E nodeId \in Range(orderedNodeIds) :
       HasContent(nodeId) /\ RoleOf(nodeId) = "system"
  /\ \E nodeId \in Range(orderedNodeIds) :
       HasContent(nodeId) /\ RoleOf(nodeId) = "" /\ nodeId \in includedIds

\* -------------------------------------------------------------------- C10
\* C10: for a cycle-free mapping whose parent and children links agree, the
\* output is one chain: the first message has no parent, every later one has
\* the message before it as its resolved parent, and no message has more
\* than one child.
C10_LinearChain ==
  (pc = "done" /\ CycleFree /\ Consistent) =>
    \A i \in 1..Len(messages) :
      /\ messages[i].parentId =
           IF i = 1 THEN null ELSE messages[i - 1].node
      /\ Len(messages[i].childrenIds) <= 1

\* a chain of two messages out of a mapping with a branch point
C10_Witness ==
  /\ pc = "done"
  /\ CycleFree
  /\ Consistent
  /\ Len(messages) >= 2
  /\ \E n \in DOMAIN mapping : Len(mapping[n].children) >= 2

====
